---------------------------- MODULE Spec2Model ----------------------------
(***************************************************************************)
(* State-machine model of plovasp/vaspio.py: the readers of the VASP       *)
(* output files (LOCPROJ, POSCAR, IBZKPT, EIGENVAL, DOSCAR) and the        *)
(* VaspData constructor that drives them.                                  *)
(*                                                                         *)
(* A file is read line by line.  The content of a file is not fixed in     *)
(* advance: every readline()/next() draws the next line from the set of    *)
(* line shapes the reader can tell apart, or reaches the end of the file   *)
(* (eof, which is sticky).  Runs of lines that a loop merely skips are     *)
(* bounded (MaxSkip, MaxBlank), so every file is finite.                   *)
(*                                                                         *)
(* A raised exception is recorded in err (its Python type) and msg (its    *)
(* message); pc = "raised" is the state of an exception that left the      *)
(* modelled function.  Floating-point tokens are modelled by integers.     *)
(***************************************************************************)
EXTENDS Integers, Sequences, FiniteSets, TLC

VARIABLES
    pc,           \* position in the code of the running reader
    err,          \* type of the exception raised ("none" if none)
    msg,          \* message of the exception raised
    line,         \* the variable `line` / `sline` of the running reader
    eof,          \* the end of the file being read has been reached
    \* ---- Plocar.locproj_parser
    ncdij,        \* self.ncdij
    nk,           \* nk
    nband,        \* self.nband
    nproj,        \* nproj
    nspin,        \* self.nspin
    nspin_band,   \* self.nspin_band
    nc_flag,      \* self.nc_flag
    has_efermi,   \* whether the attribute self.efermi exists
    efermi,       \* self.efermi (meaningful when has_efermi)
    ip,           \* ip
    proj_params,  \* proj_params[0 .. ip-1], the records filled so far
    ispin,        \* ispin
    ik,           \* ik
    ib,           \* ib
    rec,          \* <<isp_, ik_, ib_>> of the last record line split
    nskip,        \* lines skipped by search_for so far
    nblank,       \* blank lines skipped before the current record
    nrec,         \* records accepted so far (history)
    hdr_ncdij,    \* the channel count as written in the header (history)
    badrec,       \* a record whose indices differ from the loop position was parsed (history)
    returned,     \* locproj_parser returned (proj_params, plo)
    \* ---- Kpoints.from_file
    nktot,        \* self.nktot
    kwghts,       \* self.kwghts, each weight a fraction <<numerator, denominator>>
    kw_raw,       \* the weights as written in the file (history)
    kik,          \* ik
    has_ntet,     \* whether the attribute self.ntet exists
    ntet,         \* self.ntet (meaningful when has_ntet)
    it,           \* it
    tet_eof,      \* where in the tetrahedron section the input ended (history)
    \* ---- Poscar.from_file
    el_names,     \* self.el_names
    nions,        \* self.nions
    ntypes,       \* self.ntypes
    nq,           \* self.nq
    type_of_ion,  \* self.type_of_ion
    q_types,      \* the row count of each array of self.q_types
    cartesian,    \* cartesian
    singular,     \* the lattice matrix read has no inverse
    po_it,        \* it
    po_iq,        \* iq
    sp_line,      \* the tokens of the line after the lattice vectors (history)
    cnt_line,     \* the tokens of the line after that, if it was read for the counts (history)
    po_nread,     \* lines read so far (history)
    \* ---- VaspData.__init__, Eigenval.from_file, Doscar.from_file
    read_all,        \* read_all
    efermi_required, \* efermi_required
    eigs,            \* self.eigenval.eigs and .ferw: "None" or "array"
    ev_ispin,        \* self.eigenval.ispin
    ev_nktot,        \* self.eigenval.nktot
    ev_nband,        \* self.eigenval.nband
    ev_ik,           \* ik of Eigenval.from_file
    ev_ib,           \* ib of Eigenval.from_file
    dos_efermi,      \* self.doscar.efermi: None or a number
    dos_ncdij,       \* self.doscar.ncdij: None or a number
    eig_fail,        \* the exception eigenval.from_file raised (history)
    ev_bad,          \* a band line with a wrong token count or a bad token was read (history)
    dos_fail,        \* the exception doscar.from_file raised (history)
    fallback         \* the fallback branch taken after a DOSCAR failure (history)

shared == <<pc, err, msg, line, eof>>

lpVars == <<ncdij, nk, nband, nproj, nspin, nspin_band, nc_flag, has_efermi,
            efermi, ip, proj_params, ispin, ik, ib, rec, nskip, nblank, nrec,
            hdr_ncdij, badrec, returned>>

kpVars == <<nktot, kwghts, kw_raw, kik, has_ntet, ntet, it, tet_eof>>

poVars == <<el_names, nions, ntypes, nq, type_of_ion, q_types, cartesian, singular,
            po_it, po_iq, sp_line, cnt_line, po_nread>>

vdVars == <<read_all, efermi_required, eigs, ev_ispin, ev_nktot, ev_nband, ev_ik,
            ev_ib, dos_efermi, dos_ncdij, eig_fail, ev_bad, dos_fail, fallback>>

(***************************************************************************)
(* Bounds of the model.                                                    *)
(***************************************************************************)
MaxK == 2        \* largest k-point count a header declares
MaxBand == 2     \* largest band count a header declares
MaxProj == 2     \* largest projector count a header declares
MaxData == 6     \* most lines of one spin channel of the data block a header declares
MaxSkip == 1     \* most lines search_for skips before the ISITE block
MaxBlank == 1    \* most consecutive blank lines before a record line
MaxNk == 3       \* largest k-point count an IBZKPT declares
MaxTet == 2      \* largest tetrahedron count an IBZKPT declares
MaxTypes == 2    \* most tokens on the species line and on the counts line of a POSCAR

(***************************************************************************)
(* Lines.  A line is a record; t is its shape.                             *)
(*   "eof"     : readline() returned "" / next() raised StopIteration      *)
(*   "blank"   : only white space                                          *)
(*   "isite"   : "  ISITE: <n> ... : <label>"                              *)
(*   "orbital" : "orbital <isp> <ik> <ib> <eig> <occ>"                     *)
(*   "coef"    : "<n> <re> <im>"                                           *)
(*   "junk"    : one token without a colon                                 *)
(***************************************************************************)
Ln(t, a, b, c, lab) == [t |-> t, a |-> a, b |-> b, c |-> c, lab |-> lab]

EofLine == Ln("eof", 0, 0, 0, "")

BlankLine == Ln("blank", 0, 0, 0, "")

EmptyStr == Ln("empty", 0, 0, 0, "")

orb_labels ==
    << "s", "py", "pz", "px", "dxy", "dyz", "dz2", "dxz", "dx2-y2",
       "fy(3x2-y2)", "fxyz", "fyz2", "fz3", "fxz2", "fz(x2-y2)", "fx(x2-3y2)" >>

\* A label that is not in the table.
UnknownLabel == "dz"

\* The labels drawn for every ISITE line.
LabelSample == {"py", "dx2-y2"}

AllLabels == {orb_labels[i] : i \in 1..Len(orb_labels)}

\* The labels of the ISITE line read at 0-based position i of the block, when
\* the header declares n projectors and k * b records per spin: the whole
\* table for the last declared position of a one-record block (so every label
\* occurs at an even and at an odd position), the sample elsewhere.
LabelDraws(i, n, k, b) ==
    (IF k * b = 1 /\ i = n - 1 THEN AllLabels ELSE LabelSample) \cup {UnknownLabel}

\* list.index(label): the 0-based position, -1 standing for ValueError.
LabelIndex(label) ==
    IF \E i \in 1..Len(orb_labels) : orb_labels[i] = label
    THEN (CHOOSE i \in 1..Len(orb_labels) : orb_labels[i] = label) - 1
    ELSE -1

\* int(np.sqrt(lm)) for lm >= 0.
ISqrt(n) == CHOOSE r \in 0..n : r * r <= n /\ (r + 1) * (r + 1) > n

lm_to_l_m(lm) == [l |-> ISqrt(lm), m |-> lm - ISqrt(lm) * ISqrt(lm)]

\* str.strip() of a line read: a blank line and the end of file both give "".
Strip(l) == IF l.t \in {"eof", "blank"} THEN EmptyStr ELSE l

IsEmpty(l) == l.t \in {"eof", "empty"}

(***************************************************************************)
(* readline(): the lines a file can hold next.  After the end of the file  *)
(* every read gives the end of the file again.  Where the reader does not  *)
(* look at the indices of an "orbital" line, one such line stands for all. *)
(***************************************************************************)
OtherLines ==
    {BlankLine, Ln("junk", 0, 0, 0, ""), Ln("coef", 0, 0, 0, ""),
     Ln("orbital", 1, 1, 1, "")}

IsiteLines(labels) == {Ln("isite", 1, 0, 0, lab) : lab \in labels}

OrbitalLines(k, b) ==
    {Ln("orbital", s, kk, bb, "") : s \in 1..3, kk \in 1..k + 1, bb \in 1..b + 1}

ReadLine(lines) == IF eof THEN {EofLine} ELSE lines \cup {EofLine}

(***************************************************************************)
(* Exceptions.                                                             *)
(***************************************************************************)
Raise(e, m) == pc' = "raised" /\ err' = e /\ msg' = m

NoRaise == err' = err /\ msg' = msg

MsgNproj == "Number of projectors in the header is wrong in LOCPROJ"

MsgInconsistent == "Inconsistency in reading LOCPROJ"

(***************************************************************************)
(* Plocar.locproj_parser, header line.                                     *)
(***************************************************************************)
\* The channel counts a header declares (VASP writes 1, 2 or 4).
NcdijDraws == {1, 2, 3, 4}

\* The fifth token of the header: absent, not a number, or a number.
EfToken(k, v) == [k |-> k, v |-> v]

EfTokens == {EfToken("absent", 0), EfToken("bad", 0), EfToken("num", 7)}

\* The first line of the file: four integers and the Fermi token, or a line
\* with fewer than four integer tokens (which an empty file gives too).
HeaderLines ==
    {h \in [ok : {TRUE}, ncdij : NcdijDraws, nk : 1..MaxK, nband : 1..MaxBand,
            nproj : 0..MaxProj, ef : EfTokens] :
        h.nk * h.nband * (1 + h.nproj) <= MaxData}
    \cup {[ok |-> FALSE, ncdij |-> 0, nk |-> 0, nband |-> 0, nproj |-> 0,
           ef |-> EfToken("absent", 0)]}

\* self.nspin = self.ncdij if self.ncdij < 4 else 1
NspinOf(n) == IF n < 4 THEN n ELSE 1

\* self.nspin_band = 2 if self.ncdij == 2 else 1
NspinBandOf(n) == IF n = 2 THEN 2 ELSE 1

\* if self.ncdij == 4: self.nc_flag = 1 ... else: self.nc_flag = 0
NcFlagOf(n) == IF n = 4 THEN 1 ELSE 0

\* try: self.efermi = float(sline[4]) / except: print(...)
EfermiParsed(tok) == tok.k = "num"

LpUnchangedData == UNCHANGED <<ip, proj_params, ispin, ik, ib, rec, nskip, nblank,
                               nrec, badrec, returned>>

ReadHeader(h) ==
    /\ pc = "header"
    /\ LpUnchangedData
    /\ UNCHANGED <<line, eof>>
    /\ IF ~h.ok
       THEN /\ Raise("ValueError", "not enough values to unpack")
            /\ UNCHANGED <<ncdij, nk, nband, nproj, nspin, nspin_band, nc_flag,
                           has_efermi, efermi, hdr_ncdij>>
       ELSE /\ hdr_ncdij' = h.ncdij
            /\ nk' = h.nk
            /\ nband' = h.nband
            /\ nproj' = h.nproj
            /\ nspin' = NspinOf(h.ncdij)
            /\ nspin_band' = NspinBandOf(h.ncdij)
            /\ has_efermi' = EfermiParsed(h.ef)
            /\ efermi' = IF EfermiParsed(h.ef) THEN h.ef.v ELSE efermi
            /\ nc_flag' = NcFlagOf(h.ncdij)
            /\ ncdij' = IF h.ncdij = 4 THEN 1 ELSE h.ncdij
            /\ pc' = "search"
            /\ NoRaise

(***************************************************************************)
(* Plocar.search_for(f, "^ *ISITE"): read until a line matches or the      *)
(* file ends; the line is returned as read (not stripped).                 *)
(***************************************************************************)
SearchFor(l) ==
    /\ pc = "search"
    /\ l \in ReadLine(OtherLines \cup IsiteLines(LabelDraws(0, nproj, nk, nband)))
    /\ UNCHANGED <<ncdij, nk, nband, nproj, nspin, nspin_band, nc_flag, has_efermi,
                   efermi, ip, proj_params, ispin, ik, ib, rec, nblank, nrec,
                   hdr_ncdij, badrec, returned>>
    /\ NoRaise
    /\ eof' = (l.t = "eof")
    /\ IF l.t \in {"isite", "eof"}
       THEN /\ line' = l
            /\ pc' = "isite"
            /\ nskip' = nskip
       ELSE /\ nskip < MaxSkip
            /\ line' = line
            /\ pc' = "search"
            /\ nskip' = nskip + 1

(***************************************************************************)
(* The metadata loop: while line: ... line = f.readline().strip()          *)
(***************************************************************************)
StoredMNoFold(flag, i, m) == m

\* if self.nc_flag == True: 2*m for even ip, 2*m + 1 for odd ip; else m
StoredM(flag, i, m) ==
    IF flag = 1 THEN (IF i % 2 = 0 THEN 2 * m ELSE 2 * m + 1) ELSE m

ProjParam(l, i, flag) ==
    [label |-> l.lab, isite |-> l.a,
     l |-> lm_to_l_m(LabelIndex(l.lab)).l,
     m |-> StoredM(flag, i, lm_to_l_m(LabelIndex(l.lab)).m)]

IsiteLoopExit ==
    /\ pc = "isite"
    /\ IsEmpty(line)
    /\ pc' = "assert_nproj"
    /\ NoRaise
    /\ UNCHANGED <<line, eof>>
    /\ UNCHANGED lpVars

IsiteLoopBody(l) ==
    /\ pc = "isite"
    /\ ~IsEmpty(line)
    /\ l \in ReadLine(OtherLines \cup IsiteLines(LabelDraws(ip + 1, nproj, nk, nband)))
    /\ UNCHANGED <<ncdij, nk, nband, nproj, nspin, nspin_band, nc_flag, has_efermi,
                   efermi, ispin, ik, ib, rec, nskip, nblank, nrec, hdr_ncdij,
                   badrec, returned>>
    /\ IF line.t # "isite"
       THEN \* sline = line.split(':'); sline[1]
            /\ Raise("IndexError", "list index out of range")
            /\ UNCHANGED <<line, eof, ip, proj_params>>
       ELSE IF LabelIndex(line.lab) < 0
       THEN \* orb_labels.index(label)
            /\ Raise("ValueError", "label is not in list")
            /\ UNCHANGED <<line, eof, ip, proj_params>>
       ELSE IF ip >= nproj
       THEN \* proj_params[ip]['label'] = label
            /\ Raise("IndexError", "list index out of range")
            /\ UNCHANGED <<line, eof, ip, proj_params>>
       ELSE /\ proj_params' = Append(proj_params, ProjParam(line, ip, nc_flag))
            /\ ip' = ip + 1
            /\ line' = Strip(l)
            /\ eof' = (l.t = "eof")
            /\ pc' = "isite"
            /\ NoRaise

NprojCheckAtMost(i, n) == i <= n

\* assert ip == nproj
NprojCheck(i, n) == i = n

AssertNproj ==
    /\ pc = "assert_nproj"
    /\ UNCHANGED <<ncdij, nk, nband, nproj, nspin, nspin_band, nc_flag, has_efermi,
                   efermi, ip, proj_params, rec, nskip, nblank, nrec, hdr_ncdij,
                   badrec, returned>>
    /\ UNCHANGED eof
    /\ IF ~NprojCheck(ip, nproj)
       THEN /\ Raise("AssertionError", MsgNproj)
            /\ UNCHANGED <<line, ispin, ik, ib>>
       ELSE /\ NoRaise
            /\ ispin' = 0
            /\ ik' = 0
            /\ ib' = 0
            /\ IF nspin >= 1 /\ nk >= 1 /\ nband >= 1
               THEN pc' = "rec_test" /\ line' = EmptyStr
               ELSE pc' = "return" /\ line' = line

(***************************************************************************)
(* The data block: for ispin in range(self.nspin): for ik in range(nk):    *)
(* for ib in range(self.nband).                                            *)
(***************************************************************************)
\* line = ""; while not line: -- the test of the loop, with line empty
RecTest ==
    /\ pc = "rec_test"
    /\ IsEmpty(line)
    /\ pc' = "rec_read"
    /\ NoRaise
    /\ UNCHANGED <<line, eof>>
    /\ UNCHANGED lpVars

IndexCheckSpinOnly(r, s, k, b) == r[1] = s + 1

\* assert isp_ == ispin + 1 and ik_ == ik + 1 and ib_ == ib + 1
IndexCheck(r, s, k, b) == r[1] = s + 1 /\ r[2] = k + 1 /\ r[3] = b + 1

\* The loop counters after the body of the innermost loop: the next
\* (ispin, ik, ib), or done when the three loops are exhausted.
NextIter(s, k, b) ==
    IF b + 1 < nband THEN [done |-> FALSE, s |-> s, k |-> k, b |-> b + 1]
    ELSE IF k + 1 < nk THEN [done |-> FALSE, s |-> s, k |-> k + 1, b |-> 0]
    ELSE IF s + 1 < nspin THEN [done |-> FALSE, s |-> s + 1, k |-> 0, b |-> 0]
    ELSE [done |-> TRUE, s |-> s, k |-> k, b |-> b]

\* The end of one pass of the body of the ib loop; the next pass starts
\* with line = "".
EndOfRecord ==
    /\ ispin' = NextIter(ispin, ik, ib).s
    /\ ik' = NextIter(ispin, ik, ib).k
    /\ ib' = NextIter(ispin, ik, ib).b
    /\ pc' = IF NextIter(ispin, ik, ib).done THEN "return" ELSE "rec_test"
    /\ line' = EmptyStr
    /\ nblank' = 0

\* sline = line.split() ... self.ferw[ik, ib, ispin] = float(sline[5]),
\* for the non-empty line l that ended the while loop.
RecParse(l) ==
    IF l.t # "orbital"
    THEN \* isp_, ik_, ib_ = list(map(int, sline[1:4]))
         /\ Raise("ValueError", "invalid literal for int()")
         /\ UNCHANGED <<line, ip, ispin, ik, ib, rec, nblank, nrec, badrec>>
    ELSE /\ badrec' = (badrec \/ <<l.a, l.b, l.c>> # <<ispin + 1, ik + 1, ib + 1>>)
         /\ IF ~IndexCheck(<<l.a, l.b, l.c>>, ispin, ik, ib)
            THEN /\ Raise("AssertionError", MsgInconsistent)
                 /\ UNCHANGED <<line, ip, ispin, ik, ib, rec, nblank, nrec>>
            ELSE IF ispin >= nspin_band
            THEN \* self.eigs[ik, ib, ispin] = ...: eigs is (nk, nband, nspin_band)
                 /\ Raise("IndexError", "index is out of bounds for axis 2")
                 /\ UNCHANGED <<line, ip, ispin, ik, ib, rec, nblank, nrec>>
            ELSE /\ NoRaise
                 /\ rec' = <<l.a, l.b, l.c>>
                 /\ nrec' = nrec + 1
                 /\ IF nproj > 0
                    THEN /\ pc' = "coef"
                         /\ ip' = 0
                         /\ line' = l
                         /\ UNCHANGED <<ispin, ik, ib, nblank>>
                    ELSE /\ EndOfRecord
                         /\ UNCHANGED ip

\* line = f.readline().strip() -- the body of the loop, and the test that
\* follows it: an empty line goes round again, any other is parsed.
RecRead(l) ==
    /\ pc = "rec_read"
    /\ l \in ReadLine(OtherLines \cup OrbitalLines(nk, nband)
                      \cup IsiteLines({"s"}))
    /\ l.t = "blank" => nblank < MaxBlank
    /\ eof' = (l.t = "eof")
    /\ UNCHANGED <<ncdij, nk, nband, nproj, nspin, nspin_band, nc_flag, has_efermi,
                   efermi, proj_params, nskip, hdr_ncdij, returned>>
    /\ IF IsEmpty(Strip(l))
       THEN /\ nblank' = IF l.t = "blank" THEN nblank + 1 ELSE nblank
            /\ line' = EmptyStr
            /\ pc' = "rec_test"
            /\ NoRaise
            /\ UNCHANGED <<ip, ispin, ik, ib, rec, nrec, badrec>>
       ELSE RecParse(l)

\* for ip in range(nproj): line = f.readline(); sline = line.split();
\* ctmp = complex(float(sline[1]), float(sline[2])); plo[ip, ispin, ik, ib] = ctmp
\* (the coefficient line itself is not kept: line is reset before its next use)
ReadCoef(l) ==
    /\ pc = "coef"
    /\ l \in ReadLine(OtherLines \cup IsiteLines({"s"}))
    /\ UNCHANGED <<ncdij, nk, nband, nproj, nspin, nspin_band, nc_flag, has_efermi,
                   efermi, proj_params, rec, nskip, nrec, hdr_ncdij, badrec, returned>>
    /\ eof' = (l.t = "eof")
    /\ IF l.t \in {"eof", "blank", "junk"}
       THEN /\ Raise("IndexError", "list index out of range")
            /\ UNCHANGED <<line, ip, ispin, ik, ib, nblank>>
       ELSE IF l.t = "isite"
       THEN /\ Raise("ValueError", "could not convert string to float")
            /\ UNCHANGED <<line, ip, ispin, ik, ib, nblank>>
       ELSE /\ NoRaise
            /\ IF ip + 1 < nproj
               THEN /\ ip' = ip + 1
                    /\ pc' = "coef"
                    /\ UNCHANGED <<line, ispin, ik, ib, nblank>>
               ELSE /\ ip' = ip
                    /\ EndOfRecord

\* return proj_params, plo
Return ==
    /\ pc = "return"
    /\ returned' = TRUE
    /\ pc' = "done"
    /\ NoRaise
    /\ UNCHANGED <<line, eof>>
    /\ UNCHANGED <<ncdij, nk, nband, nproj, nspin, nspin_band, nc_flag, has_efermi,
                   efermi, ip, proj_params, ispin, ik, ib, rec, nskip, nblank, nrec,
                   hdr_ncdij, badrec>>

(***************************************************************************)
(* Kpoints.from_file.  The lines of an IBZKPT are drawn as shapes:         *)
(*   "text"  : a line that is only skipped                                 *)
(*   "count" : a line whose first token is the integer a                   *)
(*   "kpt"   : three coordinates and the weight a                          *)
(*   "tet"   : the integer a (the count) and a volume                      *)
(*   "row"   : five integers                                               *)
(*   "short" : fewer tokens than the reader indexes                        *)
(*   "bad"   : a token that is not a number                                *)
(***************************************************************************)
WeightDraws == {1, 2, 3}

KpLines(shapes) == IF eof THEN {EofLine} ELSE shapes \cup {EofLine}

\* A fraction n/d is the pair <<n, d>>.
FracDiv(f, n) == <<f[1], f[2] * n>>

FracAdd(f, g) == <<f[1] * g[2] + g[1] * f[2], f[2] * g[2]>>

FracIsOne(f) == f[2] # 0 /\ f[1] = f[2]

RECURSIVE FracSum(_)
FracSum(w) == IF w = <<>> THEN <<0, 1>> ELSE FracAdd(Head(w), FracSum(Tail(w)))

RECURSIVE SumSeq(_)
SumSeq(w) == IF w = <<>> THEN 0 ELSE Head(w) + SumSeq(Tail(w))

RawSum(w) == SumSeq([i \in 1..Len(w) |-> w[i][1]])

NormalizeBySum(w, n) == [i \in 1..Len(w) |-> FracDiv(w[i], RawSum(w))]

\* self.kwghts /= self.nktot
Normalize(w, n) == [i \in 1..Len(w) |-> FracDiv(w[i], n)]

\* line = next(ibz_file) -- the comment line; opening the file is part of
\* the first next() of the generator read_lines
KpComment(exists, l) ==
    /\ pc = "kp_comment"
    /\ UNCHANGED kpVars
    /\ UNCHANGED line
    /\ IF ~exists
       THEN Raise("IOError", "No such file or directory") /\ UNCHANGED eof
       ELSE IF l.t = "eof"
       THEN Raise("StopIteration", "") /\ eof' = TRUE
       ELSE pc' = "kp_count" /\ NoRaise /\ UNCHANGED eof

\* line = next(ibz_file); self.nktot = int(line.strip().split()[0])
\* ... line = next(ibz_file) -- the second comment line
KpCount(l, l2) ==
    /\ pc = "kp_count"
    /\ UNCHANGED <<kwghts, kw_raw, has_ntet, ntet, it, tet_eof>>
    /\ UNCHANGED line
    /\ IF l.t = "eof"
       THEN Raise("StopIteration", "") /\ eof' = TRUE /\ UNCHANGED <<nktot, kik>>
       ELSE IF l.t = "short"
       THEN Raise("IndexError", "list index out of range") /\ UNCHANGED <<eof, nktot, kik>>
       ELSE IF l.t # "count"
       THEN Raise("ValueError", "invalid literal for int()") /\ UNCHANGED <<eof, nktot, kik>>
       ELSE /\ nktot' = l.a
            /\ kik' = 0
            /\ IF l2.t = "eof"
               THEN Raise("StopIteration", "") /\ eof' = TRUE
               ELSE pc' = "kp_kpt" /\ NoRaise /\ UNCHANGED eof

\* for ik in range(self.nktot): line = next(ibz_file) ...
\* self.kwghts[ik] = float(sline[3])
KpKpt(l) ==
    /\ pc = "kp_kpt"
    /\ kik < nktot
    /\ UNCHANGED <<nktot, has_ntet, ntet, it, tet_eof>>
    /\ UNCHANGED line
    /\ IF l.t = "eof"
       THEN Raise("StopIteration", "") /\ eof' = TRUE /\ UNCHANGED <<kwghts, kw_raw, kik>>
       ELSE IF l.t = "short"
       THEN Raise("IndexError", "list index out of range") /\ UNCHANGED <<eof, kwghts, kw_raw, kik>>
       ELSE IF l.t # "kpt"
       THEN Raise("ValueError", "could not convert string to float")
            /\ UNCHANGED <<eof, kwghts, kw_raw, kik>>
       ELSE /\ kwghts' = Append(kwghts, <<l.a, 1>>)
            /\ kw_raw' = Append(kw_raw, l.a)
            /\ kik' = kik + 1
            /\ pc' = "kp_kpt"
            /\ NoRaise
            /\ UNCHANGED eof

\* self.kwghts /= self.nktot
KpNormalize ==
    /\ pc = "kp_kpt"
    /\ kik >= nktot
    /\ kwghts' = Normalize(kwghts, nktot)
    /\ pc' = "kp_tet_label"
    /\ NoRaise
    /\ UNCHANGED <<nktot, kw_raw, kik, has_ntet, ntet, it, tet_eof>>
    /\ UNCHANGED <<line, eof>>

TetHandler == {"StopIteration"}

NtetAfterStopKeep(n) == n

\* except StopIteration as ValueError: ... self.ntet = 0
NtetAfterStop(n) == 0

\* The exception e raised inside the try block, at place w of the section.
TetRaise(e, m, w) ==
    /\ tet_eof' = (IF e = "StopIteration" THEN w ELSE tet_eof)
    /\ IF e \in TetHandler
       THEN /\ ntet' = NtetAfterStop(ntet)
            /\ has_ntet' = TRUE
            /\ pc' = "done"
            /\ NoRaise
       ELSE /\ Raise(e, m)
            /\ UNCHANGED <<has_ntet, ntet>>

\* try: line = next(ibz_file) -- the label line
KpTetLabel(l) ==
    /\ pc = "kp_tet_label"
    /\ UNCHANGED <<nktot, kwghts, kw_raw, kik, it>>
    /\ UNCHANGED line
    /\ eof' = (l.t = "eof")
    /\ IF l.t = "eof"
       THEN TetRaise("StopIteration", "", "label")
       ELSE pc' = "kp_tet_count" /\ NoRaise /\ UNCHANGED <<has_ntet, ntet, tet_eof>>

\* line = next(ibz_file); sline = line.split(); self.ntet = int(sline[0]);
\* self.volt = float(sline[1]); self.itet = np.zeros((self.ntet, 5), dtype=int)
KpTetCount(l) ==
    /\ pc = "kp_tet_count"
    /\ UNCHANGED <<nktot, kwghts, kw_raw, kik>>
    /\ UNCHANGED line
    /\ eof' = (l.t = "eof")
    /\ IF l.t = "eof"
       THEN TetRaise("StopIteration", "", "count") /\ UNCHANGED it
       ELSE IF l.t = "short"
       THEN TetRaise("IndexError", "list index out of range", "count") /\ UNCHANGED it
       ELSE IF l.t # "tet"
       THEN TetRaise("ValueError", "invalid literal for int()", "count") /\ UNCHANGED it
       ELSE /\ ntet' = l.a
            /\ has_ntet' = TRUE
            /\ it' = 0
            /\ pc' = "kp_tet_rows"
            /\ NoRaise
            /\ UNCHANGED tet_eof

\* for it in range(self.ntet): line = next(ibz_file);
\* self.itet[it, :] = list(map(int, line.split()[:5]))
KpTetRow(l) ==
    /\ pc = "kp_tet_rows"
    /\ it < ntet
    /\ UNCHANGED <<nktot, kwghts, kw_raw, kik>>
    /\ UNCHANGED line
    /\ eof' = (l.t = "eof")
    /\ IF l.t = "eof"
       THEN TetRaise("StopIteration", "", "rows") /\ UNCHANGED it
       ELSE IF l.t # "row"
       THEN TetRaise("ValueError", "invalid literal for int()", "rows") /\ UNCHANGED it
       ELSE /\ it' = it + 1
            /\ pc' = "kp_tet_rows"
            /\ NoRaise
            /\ UNCHANGED <<has_ntet, ntet, tet_eof>>

\* the end of the try block, and of from_file
KpReturn ==
    /\ pc = "kp_tet_rows"
    /\ it >= ntet
    /\ pc' = "done"
    /\ NoRaise
    /\ UNCHANGED kpVars
    /\ UNCHANGED <<line, eof>>

(***************************************************************************)
(* Poscar.from_file.  A token of the species line or of the counts line    *)
(* is its text s; int(s) succeeds when isint, and gives n.                 *)
(***************************************************************************)
IntTok(n) == [isint |-> TRUE, n |-> n, s |-> ToString(n)]

NameTok(s) == [isint |-> FALSE, n |-> 0, s |-> s]

CountDraws == {-1, 0, 2, 4}

NameDraws == {"Fe", "O"}

SeqsUpTo(S, lo, hi) == UNION {[1..n -> S] : n \in lo..hi}

IntLines == SeqsUpTo({IntTok(n) : n \in CountDraws}, 0, MaxTypes)

NameLines == SeqsUpTo({NameTok(x) : x \in NameDraws}, 1, MaxTypes)

MixedLines == {<<IntTok(2), NameTok("Fe")>>, <<NameTok("Fe"), IntTok(2)>>}

\* The file up to the lattice vectors: whether it exists, and the shapes of
\* its first lines ("num": numeric tokens only, "text": anything else).
HeadDraws == [exists : BOOLEAN, lines : SeqsUpTo({"num", "text"}, 0, 5),
              singular : BOOLEAN]

\* int(s) fails on some token: the ValueError of list(map(int, sline.split()))
IsIntLine(toks) == \A i \in 1..Len(toks) : toks[i].isint

IntsOf(toks) == [i \in 1..Len(toks) |-> toks[i].n]

ElNameFromOne(i) == "El" \o ToString(i + 1)

\* 'El%i'%(i)
ElName(i) == "El" \o ToString(i)

\* ['El%i'%(i) for i in range(len(self.nions))]
DefaultNames(n) == [i \in 1..n |-> ElName(i - 1)]

PoFail == UNCHANGED <<el_names, nions, ntypes, nq, type_of_ion, q_types, cartesian,
                      singular, po_it, po_iq, sp_line, cnt_line, po_nread>>

\* f = read_lines(...); comment = next(f).rstrip(); ascale = float(sline);
\* three times self.a_brav[ia, :] = list(map(float, sline.split()))
PoHead(h) ==
    /\ pc = "po_head"
    /\ UNCHANGED line
    /\ IF ~h.exists
       THEN Raise("IOError", "No such file or directory") /\ PoFail /\ UNCHANGED eof
       ELSE IF \E i \in 2..5 : i <= Len(h.lines) /\ h.lines[i] = "text"
                                /\ \A j \in 2..i - 1 : h.lines[j] = "num"
       THEN Raise("ValueError", "could not convert string to float")
            /\ PoFail /\ UNCHANGED eof
       ELSE IF Len(h.lines) < 5
       THEN Raise("StopIteration", "") /\ PoFail /\ eof' = TRUE
       ELSE /\ pc' = "po_species"
            /\ NoRaise
            /\ singular' = h.singular
            /\ po_nread' = 5
            /\ UNCHANGED eof
            /\ UNCHANGED <<el_names, nions, ntypes, nq, type_of_ion, q_types, cartesian,
                           po_it, po_iq, sp_line, cnt_line>>

\* sline = readline_remove_comments(); try: self.nions = list(map(int, ...));
\* self.el_names = [...] / except ValueError: self.el_names = sline.split()
PoSpecies(eofhere, toks) ==
    /\ pc = "po_species"
    /\ UNCHANGED line
    /\ IF eofhere
       THEN Raise("StopIteration", "") /\ PoFail /\ eof' = TRUE
       ELSE /\ sp_line' = toks
            /\ po_nread' = po_nread + 1
            /\ NoRaise
            /\ UNCHANGED eof
            /\ UNCHANGED <<type_of_ion, q_types, cartesian, singular, po_it, po_iq, cnt_line>>
            /\ IF IsIntLine(toks)
               THEN /\ nions' = IntsOf(toks)
                    /\ el_names' = DefaultNames(Len(toks))
                    /\ ntypes' = Len(toks)
                    /\ nq' = SumSeq(IntsOf(toks))
                    /\ pc' = "po_mode"
               ELSE /\ el_names' = [i \in 1..Len(toks) |-> toks[i].s]
                    /\ pc' = "po_counts"
                    /\ UNCHANGED <<nions, ntypes, nq>>

\* sline = readline_remove_comments(); self.nions = list(map(int, sline.split()))
\* self.ntypes = len(self.nions); self.nq = sum(self.nions)
PoCounts(eofhere, toks) ==
    /\ pc = "po_counts"
    /\ UNCHANGED line
    /\ IF eofhere
       THEN Raise("StopIteration", "") /\ PoFail /\ eof' = TRUE
       ELSE /\ cnt_line' = toks
            /\ po_nread' = po_nread + 1
            /\ UNCHANGED eof
            /\ UNCHANGED <<el_names, type_of_ion, q_types, cartesian, singular, po_it,
                           po_iq, sp_line>>
            /\ IF ~IsIntLine(toks)
               THEN /\ Raise("ValueError", "invalid literal for int()")
                    /\ UNCHANGED <<nions, ntypes, nq>>
               ELSE /\ nions' = IntsOf(toks)
                    /\ ntypes' = Len(toks)
                    /\ nq' = SumSeq(IntsOf(toks))
                    /\ pc' = "po_mode"
                    /\ NoRaise

\* The line after the counts: "sel" starts with s or S, "cart" with c, C, k
\* or K, "other" with any other character, "blank" is empty.
ModeDraws == {"sel", "cart", "other", "blank", "eof"}

\* sline = readline_remove_comments(); if sline[0].lower() == 's': sline = ...
\* cartesian = (sline[0].lower() in 'ck'); self.kpt_basis = np.linalg.inv(...)
PoMode(m1, m2) ==
    /\ pc = "po_mode"
    /\ UNCHANGED line
    /\ UNCHANGED <<el_names, nions, ntypes, nq, singular, sp_line, cnt_line>>
    /\ LET m == IF m1 = "sel" THEN m2 ELSE m1
           n == IF m1 = "sel" THEN 2 ELSE 1
       IN  IF m1 = "eof" \/ m = "eof"
           THEN /\ Raise("StopIteration", "") /\ eof' = TRUE
                /\ UNCHANGED <<type_of_ion, q_types, cartesian, po_it, po_iq, po_nread>>
           ELSE IF m1 = "blank" \/ m = "blank"
           THEN /\ Raise("IndexError", "string index out of range") /\ UNCHANGED eof
                /\ UNCHANGED <<type_of_ion, q_types, cartesian, po_it, po_iq, po_nread>>
           ELSE /\ cartesian' = (m = "cart")
                /\ po_nread' = po_nread + n
                /\ UNCHANGED eof
                /\ IF singular
                   THEN /\ Raise("LinAlgError", "Singular matrix")
                        /\ UNCHANGED <<type_of_ion, q_types, po_it, po_iq>>
                   ELSE /\ q_types' = <<>>
                        /\ type_of_ion' = <<>>
                        /\ po_it' = 0
                        /\ po_iq' = 0
                        /\ pc' = "po_type"
                        /\ NoRaise

Repeat(x, n) == [i \in 1..(IF n > 0 THEN n ELSE 0) |-> x]

\* for it in range(self.ntypes): self.type_of_ion += self.nions[it] * [it];
\* q_at_it = np.zeros((self.nions[it], 3))
PoType ==
    /\ pc = "po_type"
    /\ po_it < ntypes
    /\ UNCHANGED <<line, eof>>
    /\ UNCHANGED <<el_names, nions, ntypes, nq, cartesian, singular, sp_line, cnt_line,
                   po_nread>>
    /\ type_of_ion' = type_of_ion \o Repeat(po_it, nions[po_it + 1])
    /\ IF nions[po_it + 1] < 0
       THEN /\ Raise("ValueError", "negative dimensions are not allowed")
            /\ UNCHANGED <<q_types, po_it, po_iq>>
       ELSE IF nions[po_it + 1] = 0
       THEN /\ q_types' = Append(q_types, 0)
            /\ po_it' = po_it + 1
            /\ po_iq' = po_iq
            /\ pc' = "po_type"
            /\ NoRaise
       ELSE /\ po_iq' = 0
            /\ pc' = "po_row"
            /\ NoRaise
            /\ UNCHANGED <<q_types, po_it>>

RowDraws == {"num", "text", "eof"}

\* for iq in range(self.nions[it]): sline = readline_remove_comments();
\* qcoord = list(map(float, sline.split()[:3])) ... self.q_types.append(q_at_it)
PoRow(r) ==
    /\ pc = "po_row"
    /\ UNCHANGED line
    /\ UNCHANGED <<el_names, nions, ntypes, nq, type_of_ion, cartesian, singular,
                   sp_line, cnt_line>>
    /\ IF r = "eof"
       THEN /\ Raise("StopIteration", "") /\ eof' = TRUE
            /\ UNCHANGED <<q_types, po_it, po_iq, po_nread>>
       ELSE IF r = "text"
       THEN /\ Raise("ValueError", "could not convert string to float") /\ UNCHANGED eof
            /\ UNCHANGED <<q_types, po_it, po_iq, po_nread>>
       ELSE /\ po_nread' = po_nread + 1
            /\ NoRaise
            /\ UNCHANGED eof
            /\ IF po_iq + 1 < nions[po_it + 1]
               THEN /\ po_iq' = po_iq + 1
                    /\ pc' = "po_row"
                    /\ UNCHANGED <<q_types, po_it>>
               ELSE /\ q_types' = Append(q_types, nions[po_it + 1])
                    /\ po_it' = po_it + 1
                    /\ po_iq' = po_iq
                    /\ pc' = "po_type"

\* the end of from_file
PoReturn ==
    /\ pc = "po_type"
    /\ po_it >= ntypes
    /\ pc' = "done"
    /\ NoRaise
    /\ UNCHANGED <<line, eof>>
    /\ UNCHANGED poVars

(***************************************************************************)
(* VaspData.__init__ with Eigenval.from_file and Doscar.from_file.         *)
(***************************************************************************)
None == [none |-> TRUE, v |-> 0]

Some(v) == [none |-> FALSE, v |-> v]

\* The Fermi tokens of a LOCPROJ header read by VaspData.
VdEfTokens == {EfToken("absent", 0), EfToken("bad", 0), EfToken("num", 7),
               EfToken("num", -3)}

\* What the rest of a mandatory file does to its reader: nothing, or one of
\* the exceptions the reader lets out.
ReaderErrors == {"IOError", "StopIteration", "ValueError", "IndexError", "AssertionError"}

VdIdle == UNCHANGED <<eigs, ev_ispin, ev_nktot, ev_nband, ev_ik, ev_ib, dos_efermi,
                      dos_ncdij, eig_fail, ev_bad, dos_fail, fallback>>

\* if read_all: (false)
VdSkip ==
    /\ pc = "vd_plocar"
    /\ ~read_all
    /\ pc' = "done"
    /\ NoRaise
    /\ UNCHANGED <<line, eof>>
    /\ UNCHANGED <<lpVars, vdVars>>

\* self.plocar.from_file(vasp_dir): the header line as in ReadHeader; the
\* rest of LOCPROJ passes (rest = "ok") or raises rest.  With more spin
\* channels than band-spin channels (ncdij = 3) the data block cannot pass:
\* the write to self.eigs of the second spin raises IndexError.
VdPlocar(h, rest) ==
    /\ pc = "vd_plocar"
    /\ read_all
    /\ rest = "ok" => NspinOf(h.ncdij) <= NspinBandOf(h.ncdij)
    /\ UNCHANGED <<line, eof>>
    /\ UNCHANGED <<read_all, efermi_required>>
    /\ VdIdle
    /\ UNCHANGED <<nk, nproj, ip, proj_params, ispin, ik, ib, rec, nskip, nblank, nrec,
                   badrec, returned>>
    /\ IF rest = "IOError" \/ ~h.ok
       THEN /\ Raise(IF rest = "IOError" THEN "IOError" ELSE "ValueError", "")
            /\ UNCHANGED <<ncdij, nband, nspin, nspin_band, nc_flag, has_efermi, efermi,
                           hdr_ncdij>>
       ELSE /\ hdr_ncdij' = h.ncdij
            /\ nband' = h.nband
            /\ nspin' = NspinOf(h.ncdij)
            /\ nspin_band' = NspinBandOf(h.ncdij)
            /\ has_efermi' = EfermiParsed(h.ef)
            /\ efermi' = IF EfermiParsed(h.ef) THEN h.ef.v ELSE efermi
            /\ nc_flag' = NcFlagOf(h.ncdij)
            /\ ncdij' = IF h.ncdij = 4 THEN 1 ELSE h.ncdij
            /\ IF rest = "ok"
               THEN pc' = "vd_poscar" /\ NoRaise
               ELSE Raise(rest, "")

\* self.poscar.from_file(vasp_dir)
VdPoscar(res) ==
    /\ pc = "vd_poscar"
    /\ UNCHANGED <<line, eof>>
    /\ UNCHANGED <<lpVars, vdVars>>
    /\ IF res = "ok" THEN pc' = "vd_kpoints" /\ NoRaise ELSE Raise(res, "")

\* self.kpoints.from_file(vasp_dir)
VdKpoints(res) ==
    /\ pc = "vd_kpoints"
    /\ UNCHANGED <<line, eof>>
    /\ UNCHANGED <<lpVars, vdVars>>
    /\ IF res = "ok" THEN pc' = "ev_preamble" /\ NoRaise ELSE Raise(res, "")

MsgEigenval == "EIGENVAL file is incorrect (probably from old versions of VASP)"

EigHandlerAll == ReaderErrors

\* except (IOError, StopIteration): -- around self.eigenval.from_file
EigHandler == {"IOError", "StopIteration"}

\* The exception e leaves Eigenval.from_file: the handler of VaspData takes
\* it (eigs = None, ferw = None, on to DOSCAR) or it leaves the constructor.
EvRaise(e, m) ==
    /\ eig_fail' = e
    /\ IF e \in EigHandler
       THEN pc' = "vd_doscar" /\ eigs' = "None" /\ NoRaise
       ELSE Raise(e, m) /\ eigs' = eigs

\* The first six lines of an EIGENVAL: whether the file exists, how many of
\* the six lines it holds, the shape of line 1 and of line 6 ("ok", "short":
\* fewer tokens than indexed, "bad": a token that is no integer) and the
\* numbers they declare.
EvPreambles ==
    [exists : BOOLEAN, nlines : 0..6, l1 : {"ok", "short", "bad"},
     l6 : {"ok", "short", "bad"}, ispin : {1, 2}, nktot : 1..MaxK, nband : 1..MaxBand]

\* The exception the preamble raises, "none" if none.
EvPreambleError(p) ==
    IF ~p.exists THEN "IOError"
    ELSE IF p.nlines < 1 THEN "StopIteration"
    ELSE IF p.l1 = "short" THEN "IndexError"
    ELSE IF p.l1 = "bad" THEN "ValueError"
    ELSE IF p.nlines < 6 THEN "StopIteration"
    ELSE IF p.l6 = "short" THEN "IndexError"
    ELSE IF p.l6 = "bad" THEN "ValueError"
    ELSE "none"

\* sline = next(f).split(); self.nq = ...; self.ispin = int(sline[3]) ...
\* self.ferw = np.zeros((self.nktot, self.nband, self.ispin))
EvPreamble(p) ==
    /\ pc = "ev_preamble"
    /\ UNCHANGED <<line, eof>>
    /\ UNCHANGED lpVars
    /\ UNCHANGED <<read_all, efermi_required, dos_efermi, dos_ncdij, dos_fail, fallback,
                   ev_bad>>
    /\ IF EvPreambleError(p) # "none"
       THEN /\ EvRaise(EvPreambleError(p), "")
            /\ ev_ispin' = IF p.exists /\ p.nlines >= 1 /\ p.l1 = "ok"
                           THEN p.ispin ELSE ev_ispin
            /\ UNCHANGED <<ev_nktot, ev_nband, ev_ik, ev_ib>>
       ELSE /\ ev_ispin' = p.ispin
            /\ ev_nktot' = p.nktot
            /\ ev_nband' = p.nband
            /\ ev_ik' = 0
            /\ ev_ib' = 0
            /\ eigs' = "array"
            /\ eig_fail' = eig_fail
            /\ pc' = "ev_kpt"
            /\ NoRaise

\* sline = next(f) (the empty line); sline = next(f) (k-point info);
\* tmp = list(map(float, sline.split())); self.kpts[ik, :] = tmp[:3];
\* self.kwghts[ik] = tmp[3]
EvKpt(sep, k) ==
    /\ pc = "ev_kpt"
    /\ UNCHANGED <<line, eof>>
    /\ UNCHANGED lpVars
    /\ UNCHANGED <<read_all, efermi_required, ev_ispin, ev_nktot, ev_nband, ev_ik,
                   dos_efermi, dos_ncdij, dos_fail, fallback, ev_bad>>
    /\ IF sep = "eof" \/ k = "eof"
       THEN EvRaise("StopIteration", "") /\ UNCHANGED ev_ib
       ELSE IF k = "bad"
       THEN EvRaise("ValueError", "could not convert string to float") /\ UNCHANGED ev_ib
       ELSE IF k = "short"
       THEN EvRaise("IndexError", "list index out of range") /\ UNCHANGED ev_ib
       ELSE /\ ev_ib' = 0
            /\ pc' = "ev_band"
            /\ NoRaise
            /\ UNCHANGED <<eigs, eig_fail>>

\* A band line: its number of tokens, and whether each is a number.
BandLines == [eof : BOOLEAN, ntok : 0..6, numeric : BOOLEAN]

BandCheckAtMost(n, sp) == n <= 2 * sp + 1

\* assert len(tmp) == 2 * self.ispin + 1
BandCheck(n, sp) == n = 2 * sp + 1

\* for ib in range(self.nband): sline = next(f).split();
\* tmp = list(map(float, sline)); assert ...; self.eigs[ik, ib, :] = ...
EvBand(b) ==
    /\ pc = "ev_band"
    /\ UNCHANGED <<line, eof>>
    /\ UNCHANGED lpVars
    /\ UNCHANGED <<read_all, efermi_required, ev_ispin, ev_nktot, ev_nband,
                   dos_efermi, dos_ncdij, dos_fail, fallback>>
    /\ ev_bad' = (ev_bad \/ (~b.eof /\ (~b.numeric \/ b.ntok # 2 * ev_ispin + 1)))
    /\ IF b.eof
       THEN EvRaise("StopIteration", "") /\ UNCHANGED <<ev_ik, ev_ib>>
       ELSE IF ~b.numeric
       THEN EvRaise("ValueError", "could not convert string to float")
            /\ UNCHANGED <<ev_ik, ev_ib>>
       ELSE IF ~BandCheck(b.ntok, ev_ispin)
       THEN EvRaise("AssertionError", MsgEigenval) /\ UNCHANGED <<ev_ik, ev_ib>>
       ELSE /\ NoRaise
            /\ UNCHANGED <<eigs, eig_fail>>
            /\ IF ev_ib + 1 < ev_nband
               THEN ev_ib' = ev_ib + 1 /\ ev_ik' = ev_ik /\ pc' = "ev_band"
               ELSE /\ ev_ib' = ev_ib
                    /\ ev_ik' = ev_ik + 1
                    /\ pc' = IF ev_ik + 1 < ev_nktot THEN "ev_kpt" ELSE "vd_doscar"

\* A DOSCAR: whether it exists, how many of its first six lines it holds,
\* the number of tokens of line 6 and its fourth token.
DoscarFiles ==
    [exists : BOOLEAN, nlines : 0..6, ntok : 3..5,
     tok : {EfToken("bad", 0), EfToken("num", 2), EfToken("num", 5)}]

\* Doscar.from_file: the exception it raises, "none" if none.
DoscarError(d) ==
    IF ~d.exists THEN "IOError"
    ELSE IF d.nlines < 6 THEN "StopIteration"
    ELSE IF d.ntok < 4 THEN "IndexError"
    ELSE IF d.tok.k # "num" THEN "ValueError"
    ELSE "none"

MsgFermi == "Efermi cannot be read from DOSCAR or LOCPROJ"

DosHandlerAll == ReaderErrors

\* except (IOError, StopIteration): -- around self.doscar.from_file
DosHandler == {"IOError", "StopIteration"}

\* except NameError: -- around self.plocar.efermi
FermiHandler == {"NameError"}

\* try: self.doscar.from_file(vasp_dir) / except ...: the fallback
VdDoscar(d) ==
    /\ pc = "vd_doscar"
    /\ UNCHANGED <<line, eof>>
    /\ UNCHANGED lpVars
    /\ UNCHANGED <<read_all, efermi_required, eigs, ev_ispin, ev_nktot, ev_nband, ev_ik,
                   ev_ib, eig_fail, ev_bad>>
    /\ dos_fail' = DoscarError(d)
    /\ IF DoscarError(d) = "none"
       THEN \* self.efermi = float(sline[3])
            /\ dos_efermi' = Some(d.tok.v)
            /\ pc' = "done"
            /\ NoRaise
            /\ UNCHANGED <<dos_ncdij, fallback>>
       ELSE IF DoscarError(d) \notin DosHandler
       THEN /\ Raise(DoscarError(d), "")
            /\ UNCHANGED <<dos_efermi, dos_ncdij, fallback>>
       ELSE IF efermi_required
       THEN /\ fallback' = "locproj"
            /\ UNCHANGED dos_ncdij
            /\ IF has_efermi
               THEN \* self.doscar.efermi = self.plocar.efermi
                    /\ dos_efermi' = Some(efermi)
                    /\ pc' = "done"
                    /\ NoRaise
               ELSE \* self.plocar.efermi raises AttributeError
                    /\ UNCHANGED dos_efermi
                    /\ IF "AttributeError" \in FermiHandler
                       THEN Raise("Exception", MsgFermi)
                       ELSE Raise("AttributeError", "'Plocar' object has no attribute 'efermi'")
       ELSE \* self.doscar.ncdij = self.plocar.nspin
            /\ fallback' = "placeholder"
            /\ dos_ncdij' = Some(nspin)
            /\ pc' = "done"
            /\ NoRaise
            /\ UNCHANGED dos_efermi

(***************************************************************************)
(* Specifications: one per reader, and one of the constructor.  A reader   *)
(* that is not running keeps its variables at their initial values.        *)
(***************************************************************************)
vars == <<shared, lpVars, kpVars, poVars, vdVars>>

InitShared(p) ==
    /\ pc = p
    /\ err = "none"
    /\ msg = ""
    /\ line = EmptyStr
    /\ eof = FALSE

\* Plocar.__init__ and the locals of locproj_parser before its first line
InitLp ==
    /\ ncdij = 0 /\ nk = 0 /\ nband = 0 /\ nproj = 0 /\ nspin = 0 /\ nspin_band = 0
    /\ nc_flag = 0 /\ has_efermi = FALSE /\ efermi = 0 /\ ip = 0
    /\ proj_params = <<>> /\ ispin = 0 /\ ik = 0 /\ ib = 0 /\ rec = <<0, 0, 0>>
    /\ nskip = 0 /\ nblank = 0 /\ nrec = 0 /\ hdr_ncdij = 0 /\ badrec = FALSE
    /\ returned = FALSE

\* Kpoints.__init__
InitKp ==
    /\ nktot = 0 /\ kwghts = <<>> /\ kw_raw = <<>> /\ kik = 0 /\ has_ntet = FALSE
    /\ ntet = 0 /\ it = 0 /\ tet_eof = "none"

\* Poscar.__init__
InitPo ==
    /\ el_names = <<>> /\ nions = <<>> /\ ntypes = 0 /\ nq = 0 /\ type_of_ion = <<>>
    /\ q_types = <<>> /\ cartesian = FALSE /\ singular = FALSE /\ po_it = 0 /\ po_iq = 0
    /\ sp_line = <<>> /\ cnt_line = <<>> /\ po_nread = 0

\* Eigenval.__init__, Doscar.__init__ and the arguments of VaspData.__init__
InitVd(ra, er) ==
    /\ read_all = ra /\ efermi_required = er
    /\ eigs = "None" /\ ev_ispin = 0 /\ ev_nktot = 0 /\ ev_nband = 0 /\ ev_ik = 0
    /\ ev_ib = 0 /\ dos_efermi = None /\ dos_ncdij = None /\ eig_fail = "none"
    /\ ev_bad = FALSE
    /\ dos_fail = "none" /\ fallback = "none"

\* Every line a LOCPROJ read can draw (each action keeps those of its place).
LpLines ==
    OtherLines \cup OrbitalLines(MaxK, MaxBand)
    \cup IsiteLines(AllLabels \cup {UnknownLabel}) \cup {EofLine}

InitLocproj == InitShared("header") /\ InitLp /\ InitKp /\ InitPo /\ InitVd(TRUE, TRUE)

NextLocproj ==
    /\ UNCHANGED <<kpVars, poVars, vdVars>>
    /\ \/ pc = "header" /\ \E h \in HeaderLines : ReadHeader(h)
       \/ pc = "search" /\ \E l \in LpLines : SearchFor(l)
       \/ IsiteLoopExit
       \/ pc = "isite" /\ \E l \in LpLines : IsiteLoopBody(l)
       \/ AssertNproj
       \/ RecTest
       \/ pc = "rec_read" /\ \E l \in LpLines : RecRead(l)
       \/ pc = "coef" /\ \E l \in LpLines : ReadCoef(l)
       \/ Return

SpecLocproj == InitLocproj /\ [][NextLocproj]_vars

\* The parser is one sequential process: it takes its next step whenever it
\* has one.
FairLocproj == SpecLocproj /\ WF_vars(NextLocproj)

\* The lines an IBZKPT read can draw.
KLines ==
    {Ln("text", 0, 0, 0, ""), Ln("short", 0, 0, 0, ""), Ln("bad", 0, 0, 0, ""),
     Ln("row", 0, 0, 0, ""), EofLine}
    \cup {Ln("count", n, 0, 0, "") : n \in 0..MaxNk}
    \cup {Ln("kpt", w, 0, 0, "") : w \in WeightDraws}
    \cup {Ln("tet", n, 0, 0, "") : n \in 0..MaxTet}

KRead == IF eof THEN {EofLine} ELSE KLines

InitKpoints == InitShared("kp_comment") /\ InitLp /\ InitKp /\ InitPo /\ InitVd(TRUE, TRUE)

NextKpoints ==
    /\ UNCHANGED <<lpVars, poVars, vdVars>>
    /\ \/ pc = "kp_comment" /\ \E e \in BOOLEAN, l \in KRead : KpComment(e, l)
       \/ pc = "kp_count" /\ \E l \in KRead, l2 \in {Ln("text", 0, 0, 0, ""), EofLine} :
                                KpCount(l, l2)
       \/ pc = "kp_kpt" /\ \E l \in KRead : KpKpt(l)
       \/ KpNormalize
       \/ pc = "kp_tet_label" /\ \E l \in KRead : KpTetLabel(l)
       \/ pc = "kp_tet_count" /\ \E l \in KRead : KpTetCount(l)
       \/ pc = "kp_tet_rows" /\ \E l \in KRead : KpTetRow(l)
       \/ KpReturn

SpecKpoints == InitKpoints /\ [][NextKpoints]_vars

InitPoscar == InitShared("po_head") /\ InitLp /\ InitKp /\ InitPo /\ InitVd(TRUE, TRUE)

NextPoscar ==
    /\ UNCHANGED <<lpVars, kpVars, vdVars>>
    /\ \/ pc = "po_head" /\ \E h \in HeadDraws : PoHead(h)
       \/ pc = "po_species" /\ \E e \in BOOLEAN,
                                  t \in IntLines \cup NameLines \cup MixedLines :
                                  PoSpecies(e, t)
       \/ pc = "po_counts" /\ \E e \in BOOLEAN,
                                 t \in IntLines \cup NameLines \cup MixedLines :
                                 PoCounts(e, t)
       \/ pc = "po_mode" /\ \E m1 \in ModeDraws, m2 \in ModeDraws : PoMode(m1, m2)
       \/ PoType
       \/ pc = "po_row" /\ \E r \in RowDraws : PoRow(r)
       \/ PoReturn

SpecPoscar == InitPoscar /\ [][NextPoscar]_vars

VdHeaderLines ==
    {h \in [ok : BOOLEAN, ncdij : NcdijDraws, nk : {1}, nband : 1..MaxBand,
            nproj : {1}, ef : VdEfTokens] : TRUE}

InitVaspData ==
    /\ InitShared("vd_plocar") /\ InitLp /\ InitKp /\ InitPo
    /\ \E ra \in BOOLEAN, er \in BOOLEAN : InitVd(ra, er)

NextVaspData ==
    /\ UNCHANGED <<kpVars, poVars>>
    /\ \/ VdSkip
       \/ pc = "vd_plocar" /\ \E h \in VdHeaderLines, r \in ReaderErrors \cup {"ok"} :
                                VdPlocar(h, r)
       \/ pc = "vd_poscar" /\ \E r \in ReaderErrors \cup {"LinAlgError", "ok"} : VdPoscar(r)
       \/ pc = "vd_kpoints" /\ \E r \in ReaderErrors \cup {"ok"} : VdKpoints(r)
       \/ pc = "ev_preamble" /\ \E p \in EvPreambles : EvPreamble(p)
       \/ pc = "ev_kpt" /\ \E s \in {"text", "eof"}, k \in {"ok", "short", "bad", "eof"} :
                              EvKpt(s, k)
       \/ pc = "ev_band" /\ \E b \in BandLines : EvBand(b)
       \/ pc = "vd_doscar" /\ \E d \in DoscarFiles : VdDoscar(d)

SpecVaspData == InitVaspData /\ [][NextVaspData]_vars

(***************************************************************************)
(* Properties.                                                             *)
(***************************************************************************)
Terminal == {"done", "raised"}

\* C1: when DOSCAR cannot be read (missing or truncated) and the Fermi level
\* is required, the constructor fails with the dedicated "Efermi cannot be
\* read from DOSCAR or LOCPROJ" error if LOCPROJ gave no Fermi level, and
\* otherwise succeeds with doscar.efermi equal to the LOCPROJ value.
C1_FermiFallback ==
    (pc \in Terminal /\ read_all /\ efermi_required
        /\ dos_fail \in {"IOError", "StopIteration"})
    => IF has_efermi
       THEN pc = "done" /\ err = "none" /\ dos_efermi = Some(efermi)
       ELSE pc = "raised" /\ err = "Exception" /\ msg = MsgFermi

\* C2: every record the parser accepts declares the indices of the loop
\* position (counters plus one); once a record with other indices has been
\* parsed the parser has failed with "Inconsistency in reading LOCPROJ" and
\* returns nothing.
C2_RecordIndices ==
    /\ [](badrec => /\ pc = "raised"
                    /\ err = "AssertionError"
                    /\ msg = MsgInconsistent
                    /\ ~returned)
    /\ [][nrec' = nrec + 1 => rec' = <<ispin + 1, ik + 1, ib + 1>>]_vars

\* A record with a wrong index triple was rejected after a good one was accepted.
C2_Witness ==
    /\ badrec
    /\ nrec >= 1
    /\ pc = "raised"
    /\ err = "AssertionError"

\* C3: the parser terminates on every finite input: it returns or raises.
C3_Terminates == <>(pc \in Terminal)

\* C4: past the metadata block the number of metadata records parsed is the
\* declared projector count, never more are stored, and every stored label
\* is one of the table.
C4_ProjectorCount ==
    /\ Len(proj_params) <= nproj
    /\ ip >= 0
    /\ (pc \in {"rec_test", "rec_read", "coef", "return", "done"} \/ nrec > 0 \/ badrec)
       => Len(proj_params) = nproj
    /\ \A i \in 1..Len(proj_params) :
          \E j \in 1..Len(orb_labels) : orb_labels[j] = proj_params[i].label

\* Two projectors were declared, two records parsed, and the parser returned.
C4_Witness ==
    /\ returned
    /\ nproj = 2
    /\ Len(proj_params) = 2

\* C5 as stated: after Kpoints.from_file the stored weights sum to 1.
C5_SumIsOne ==
    (pc = "done" /\ nktot >= 1) => FracIsOne(FracSum(kwghts))

\* C5 as amended: the stored weights sum to the sum of the weights of the
\* file divided by N_k, hence to 1 exactly when those sum to N_k.
C5_SumIsRawOverNk ==
    (pc \in {"kp_tet_label", "kp_tet_count", "kp_tet_rows", "done"} /\ nktot >= 1)
    => /\ Len(kwghts) = nktot
       /\ FracSum(kwghts)[2] # 0
       /\ FracSum(kwghts)[1] * nktot = SumSeq(kw_raw) * FracSum(kwghts)[2]
       /\ FracIsOne(FracSum(kwghts)) <=> (SumSeq(kw_raw) = nktot)

\* Two k-points with the weights 1 and 3 were read and normalised.
C5_Witness ==
    /\ pc = "done"
    /\ nktot = 2
    /\ kw_raw = <<1, 3>>
    /\ ~FracIsOne(FracSum(kwghts))

DosFallback == IF efermi_required THEN "locproj" ELSE "placeholder"

\* C6 as stated: no failure of the DOSCAR reader leaves the constructor as
\* such, and the fallback branch is applied after every one.
C6_AnyDoscarFailureNonFatal ==
    dos_fail # "none" => (err # dos_fail /\ fallback = DosFallback)

\* C6 as amended: a missing DOSCAR or one shorter than six lines does not
\* leave the constructor as such and the fallback branch is applied; a sixth
\* line with fewer than four tokens or a non-numeric fourth token leaves the
\* constructor as IndexError or ValueError, and no fallback is applied.
C6_DoscarFailures ==
    /\ dos_fail \in {"IOError", "StopIteration"}
       => (err # dos_fail /\ fallback = DosFallback)
    /\ dos_fail \in {"IndexError", "ValueError"}
       => (pc = "raised" /\ err = dos_fail /\ fallback = "none"
           /\ dos_efermi = None /\ dos_ncdij = None)

\* A truncated DOSCAR, Fermi level not required: the spin count of LOCPROJ
\* (here 2) is the placeholder, and the constructor returned.
C6_Witness ==
    /\ pc = "done"
    /\ dos_fail = "StopIteration"
    /\ fallback = "placeholder"
    /\ dos_ncdij = Some(2)

\* C7: once the input has ended anywhere in the tetrahedron section,
\* from_file has returned normally with ntet = 0.
C7_NoTetrahedra ==
    tet_eof # "none" => (pc = "done" /\ err = "none" /\ has_ntet /\ ntet = 0)

\* The input ended among the tetrahedron lines, after a count line that
\* declared two of them and one of them read.
C7_Witness ==
    /\ tet_eof = "rows"
    /\ it = 1
    /\ pc = "done"
    /\ ntet = 0

\* C8: a header with ncdij = 4 sets the non-collinear flag and gives one
\* spin channel, and the m stored for the record at position i (from 0) is 2m
\* for even i and 2m + 1 for odd i, m = index - l*l, l*l <= index < (l+1)*(l+1)
\* for the index of the label in the table; any other ncdij clears the flag
\* and stores m itself.
C8_NonCollinear ==
    hdr_ncdij # 0
    => /\ hdr_ncdij = 4 => (nc_flag = 1 /\ nspin = 1)
       /\ hdr_ncdij # 4 => nc_flag = 0
       /\ \A i \in 1..Len(proj_params) :
             \E idx \in 0..15, l \in 0..3 :
                /\ orb_labels[idx + 1] = proj_params[i].label
                /\ l * l <= idx /\ idx < (l + 1) * (l + 1)
                /\ proj_params[i].l = l
                /\ proj_params[i].m =
                      IF hdr_ncdij = 4
                      THEN (IF (i - 1) % 2 = 0 THEN 2 * (idx - l * l)
                                              ELSE 2 * (idx - l * l) + 1)
                      ELSE idx - l * l

\* ncdij = 4, records "py" then "dx2-y2": m = 0 and m = 4 stored as 0 and 9.
C8_Witness ==
    /\ returned
    /\ hdr_ncdij = 4
    /\ Len(proj_params) = 2
    /\ proj_params[1].label = "py" /\ proj_params[1].m = 0
    /\ proj_params[2].label = "dx2-y2" /\ proj_params[2].m = 9

AllInt(toks) == \A i \in 1..Len(toks) : toks[i].isint

\* C9: a species line of integer tokens only gives the ion counts, the names
\* El0, El1, ... and consumes no line for the counts; any other species line
\* gives the names, and the next line gives the counts.  "Fe O" then "2 4"
\* gives ["Fe","O"], [2,4] and 6 ions; a lone "2 4" gives ["El0","El1"], [2,4].
C9_SpeciesLine ==
    pc \in {"po_mode", "po_type", "po_row", "done"}
    => /\ IF AllInt(sp_line)
          THEN /\ Len(nions) = Len(sp_line)
               /\ \A i \in 1..Len(sp_line) : nions[i] = sp_line[i].n
               /\ Len(el_names) = Len(sp_line)
               /\ \A i \in 1..Len(sp_line) : el_names[i] = "El" \o ToString(i - 1)
               /\ cnt_line = <<>>
               /\ pc = "po_mode" => po_nread = 6
          ELSE /\ Len(el_names) = Len(sp_line)
               /\ \A i \in 1..Len(sp_line) : el_names[i] = sp_line[i].s
               /\ AllInt(cnt_line)
               /\ Len(nions) = Len(cnt_line)
               /\ \A i \in 1..Len(cnt_line) : nions[i] = cnt_line[i].n
               /\ pc = "po_mode" => po_nread = 7
       /\ (sp_line = <<NameTok("Fe"), NameTok("O")>> /\ cnt_line = <<IntTok(2), IntTok(4)>>)
          => (el_names = <<"Fe", "O">> /\ nions = <<2, 4>> /\ nq = 6)
       /\ sp_line = <<IntTok(2), IntTok(4)>>
          => (el_names = <<"El0", "El1">> /\ nions = <<2, 4>>)

\* "Fe O" then "2 4", and the whole file read.
C9_Witness ==
    /\ pc = "done"
    /\ el_names = <<"Fe", "O">>
    /\ nions = <<2, 4>>
    /\ nq = 6

\* C10: after a successful Poscar.from_file the names and the counts have
\* the same length, the number of species, and the total ion count is the sum
\* of the counts, the length of the per-ion species list and the sum of the
\* row counts of the coordinate arrays.
C10_ParallelLists ==
    pc = "done"
    => /\ Len(el_names) = Len(nions)
       /\ Len(nions) = ntypes
       /\ nq = SumSeq(nions)
       /\ nq = Len(type_of_ion)
       /\ nq = SumSeq(q_types)

DosAttempted == dos_fail # "none" \/ dos_efermi # None

\* C12: with LOCPROJ, POSCAR and IBZKPT read, a failure of the EIGENVAL
\* reader leaves eigs and ferw unset and goes on to DOSCAR exactly when it is
\* a file that cannot be opened or an early end of the stream; any other
\* failure, and in particular a band line whose token count is not
\* 2 * ispin + 1 or that holds a token that is no number, leaves the
\* constructor as such, with DOSCAR never attempted.
C12_EigenvalFailures ==
    /\ eig_fail \in {"IOError", "StopIteration"}
       => /\ eigs = "None"
          /\ err # eig_fail
          /\ pc \in {"vd_doscar", "done", "raised"}
          /\ pc \in Terminal => DosAttempted
    /\ eig_fail \notin {"none", "IOError", "StopIteration"}
       => (pc = "raised" /\ err = eig_fail /\ ~DosAttempted)
    /\ ev_bad
       => /\ pc = "raised"
          /\ err \in {"AssertionError", "ValueError"}
          /\ eig_fail = err
          /\ ~DosAttempted
    /\ ((pc = "vd_doscar" \/ DosAttempted) /\ eig_fail = "none") => eigs = "array"

\* An EIGENVAL that ends after its first k-point block: the bands are left
\* unset, DOSCAR was read and the constructor returned.
C12_Witness ==
    /\ pc = "done"
    /\ eig_fail = "StopIteration"
    /\ ev_ik = 1
    /\ eigs = "None"
    /\ dos_fail = "none"
    /\ dos_efermi # None

=============================================================================
